---------------------------- MODULE Spec2Model ----------------------------
(***************************************************************************)
(* Excel Header Checker (src/Streamlit_2.py): the lenient normalizer, the  *)
(* header comparator, the per-sheet schema scan over header-row offsets    *)
(* and the workbook loop that aggregates the per-sheet results.            *)
(*                                                                         *)
(* A header label is a sequence of characters, each character a one-       *)
(* character string; the characters that cannot be written inside a        *)
(* string of this notation have a name: "NBSP" (U+00A0), "LDQUO" (U+201C), *)
(* "RDQUO" (U+201D).  A header row is a sequence of labels.                *)
(***************************************************************************)
EXTENDS Integers, Sequences, FiniteSets

(***************************************************************************)
(* Bounds of the model.                                                    *)
(***************************************************************************)
MaxTryRows == 2      \* largest value of the "Try header row at lines" slider explored
MaxSheets == 2       \* largest number of sheets in the uploaded workbook
MaxListLen == 2      \* longest header list handed to the comparator on its own
MaxStrLen == 3       \* longest label handed to the normalizer on its own

(***************************************************************************)
(* Values of the program.                                                  *)
(***************************************************************************)
Sentinel == 1000000000          \* 10**9
NoneStr == "None"               \* None where a string is expected
NoneInt == -1                   \* None where an int is expected
NoneHeaders == << <<"None">> >> \* None where a header list is expected
NoneLabel == <<"(", "n", "o", "n", "e", ")">>   \* the placeholder "(none)"

ModeExact == "Exact (case & spaces must match)"
ModeLenient == "Lenient (ignores case/extra spaces/underscores/newlines/quotes/*)"
Modes == {ModeExact, ModeLenient}

Range(f) == {f[i] : i \in DOMAIN f}
Max(a, b) == IF a >= b THEN a ELSE b

(***************************************************************************)
(* SCHEMAS, in the order the dict literal declares them.                   *)
(***************************************************************************)
Schema1 ==
  <<
    <<"S", ".", " ", "N", "o", ".">>,
    <<"P", "l", "a", "n", "t">>,
    <<"P", "r", "o", "c", "e", "s", "s">>,
    <<"S", "h", "o", "p", " ", "T", "y", "p", "e">>,
    <<"S", "h", "o", "p", "\n", "C", "o", "d", "e">>,
    <<"S", "h", "o", "p", " ", "D", "e", "s", "c", "r", "i", "p", "t", "i", "o", "n">>,
    <<"C", "o", "s", "t", " ", "C", "e", "n", "t", "r", "e">>,
    <<"L", "i", "n", "e">>,
    <<"L", "i", "n", "e", " ", "t", "y", "p", "e">>,
    <<"I", "o", "t", " ", "S", "t", "a", "t", "u", "s">>,
    <<"C", "a", "p", "a", "c", "i", "t", "y", " ", "p", "e", "r", " ", "s", "h", "i", "f", "t", " ", "(", " ", "A", "s", " ", "p", "e", "r", " ", "p", "r", "o", "d", ")">>,
    <<"L", "o", "g", "i", "c", "a", "l", " ", "P", "S", "L">>,
    <<"P", "h", "y", "s", "i", "c", "a", "l", " ", "P", "S", "L", " ", "*", "*">>,
    <<"O", "p", "e", "r", "a", "t", "i", "o", "n", "a", "l", " ", "S", "h", "i", "f", "t", "s">>,
    <<"D", "e", "t", "a", "i", "l", "s", " ", "o", "f", " ", "D", "e", "v", "i", "a", "t", "i", "o", "n", " ", "i", "n", " ", "S", "h", "i", "f", "t", " ", "*">>,
    <<"N", "o", " ", "o", "f", " ", "M", "a", "c", "h", "i", "n", "e", "s">>,
    <<"C", "a", "t", "e", "g", "o", "r", "y", "\n", "(", "4", "W", "/", "2", "W", ")">>,
    <<"P", "a", "r", "t", " ", "N", "o", "/", "\n", "M", "o", "d", "e", "l", " ", "N", "o">>,
    <<"P", "a", "r", "t", " ", "N", "a", "m", "e", "/", "\n", "M", "o", "d", "e", "l", " ", "D", "e", "s", "c", "r", "i", "p", "t", "i", "o", "n">>,
    <<"G", "r", "o", "s", "s", " ", "R", "M", " ", "W", "e", "i", "g", "h", "t", "\n", "(", "i", "n", " ", "k", "g", "/", " ", "P", "a", "r", "t", ")">>,
    <<"B", "r", "o", "a", "d", " ", "M", "o", "d", "e", "l">>,
    <<"E", "n", "g", "i", "n", "e", "/", "T", "M">>,
    <<"F", "i", "n", "a", "n", "c", "i", "a", "l", " ", "Y", "e", "a", "r">>,
    <<"M", "o", "n", "t", "h">>,
    <<"O", "K", " ", "V", "o", "l", "u", "m", "e">>,
    <<"R", "e", "j", "e", "c", "t", "i", "o", "n", " ", "V", "o", "l", "u", "m", "e">>,
    <<"O", "E", "E", "/", "L", "i", "n", "e", " ", "E", "f", "f", "i", "c", "i", "e", "n", "c", "y", " ", "A", "s", " ", "p", "e", "r", " ", "P", "r", "o", "d", "u", "c", "t", "i", "o", "n">>,
    <<"R", "e", "m", "a", "r", "k", "s", " ", "(", " ", "I", "f", " ", "A", "n", "y", ")">>
  >>

Schema2 ==
  <<
    <<"S", ".", " ", "N", "o", ".">>,
    <<"P", "l", "a", "n", "t">>,
    <<"M", "a", "i", "n", "t", " ", "D", "e", "p", "t", " ", "C", "o", "d", "e">>,
    <<"M", "a", "i", "n", "t", " ", "D", "e", "p", "t", " ", "D", "e", "s", "c", "r", "i", "p", "t", "i", "o", "n">>,
    <<"C", "o", "s", "t", " ", "C", "e", "n", "t", "r", "e">>,
    <<"T", "y", "p", "e">>,
    <<"S", "h", "o", "p", " ", "C", "o", "v", "e", "r", "a", "g", "e", "*">>,
    <<"R", "e", "m", "a", "r", "k", "s">>
  >>

Schema3 ==
  <<
    <<"S", ".", " ", "N", "o", ".">>,
    <<"P", "l", "a", "n", "t">>,
    <<"P", "r", "o", "c", "e", "s", "s">>,
    <<"S", "h", "o", "p", " ", "T", "y", "p", "e">>,
    <<"S", "h", "o", "p", "\n", "C", "o", "d", "e", "/", "M", "a", "i", "n", "t", " ", "D", "e", "p", "t">>,
    <<"S", "h", "o", "p", " ", "D", "e", "s", "c", "r", "i", "p", "t", "i", "o", "n">>,
    <<"C", "o", "s", "t", " ", "C", "e", "n", "t", "r", "e">>,
    <<"M", "o", "n", "t", "h">>,
    <<"A", "c", "t", "i", "v", "i", "t", "y", " ", "C", "a", "t", "e", "g", "o", "r", "y">>,
    <<"S", "u", "b", " ", "A", "c", "t", "i", "v", "i", "t", "y", "*">>,
    <<"M", "a", "n", "p", "o", "w", "e", "r", " ", "G", "r", "a", "d", "e">>,
    <<"H", "e", "a", "d", "c", "o", "u", "n", "t">>
  >>

Schema4 ==
  <<
    <<"S", ".", " ", "N", "o", ".">>,
    <<"P", "l", "a", "n", "t">>,
    <<"P", "r", "o", "c", "e", "s", "s">>,
    <<"S", "h", "o", "p">>,
    <<"L", "i", "n", "e">>,
    <<"L", "i", "n", "e", " ", "T", "y", "p", "e">>,
    <<"M", "o", "d", "e", "l">>,
    <<"F", "u", "e", "l", " ", "T", "y", "p", "e">>,
    <<"P", "a", "r", "t", " ", "N", "o", "/", "\n", "M", "o", "d", "e", "l", " ", "N", "o">>,
    <<"P", "a", "r", "t", " ", "N", "a", "m", "e", "/", "\n", "M", "o", "d", "e", "l", " ", "D", "e", "s", "c", "r", "i", "p", "t", "i", "o", "n">>,
    <<"A", "n", "n", "u", "a", "l", " ", "C", "a", "p", "a", "c", "i", "t", "y", " ", "a", "s", " ", "p", "e", "r", " ", "O", "E", "E", "*">>,
    <<"S", "M", "M", "\n", "P", "e", "r", " ", "P", "a", "r", "t", "*", "*">>,
    <<"T", "a", "k", "t", " ", "T", "i", "m", "e">>,
    <<"C", "y", "c", "l", "e", " ", "T", "i", "m", "e">>,
    <<"O", "E", "E", " ", "F", "a", "c", "t", "o", "r", " ", "(", "%", ")">>
  >>

(***************************************************************************)
(* What pd.read_excel(xls, sheet_name, header=header_row, nrows=0) can     *)
(* produce for one header row of one sheet: the columns of that row, or    *)
(* an exception.  The rows explored: the header row of Schema 2, the same  *)
(* row with formatting noise, the header row of Schema 3, a row as close   *)
(* to Schema 2 as to Schema 3, a row close to no schema, and a blank row.  *)
(***************************************************************************)
RowS2 == Schema2
RowS3 == Schema3
RowS2Noisy ==
  <<
    <<"s", ".", " ", "n", "o", ".">>,
    <<"P", "L", "A", "N", "T">>,
    <<"M", "a", "i", "n", "t", "_", "D", "e", "p", "t", "_", "C", "o", "d", "e">>,
    <<"M", "a", "i", "n", "t", " ", " ", "D", "e", "p", "t", " ", "D", "e", "s", "c", "r", "i", "p", "t", "i", "o", "n">>,
    <<"C", "o", "s", "t", "\n", "C", "e", "n", "t", "r", "e">>,
    <<"LDQUO", "T", "y", "p", "e", "RDQUO">>,
    <<"S", "h", "o", "p", "NBSP", "C", "o", "v", "e", "r", "a", "g", "e">>,
    <<"R", "e", "m", "a", "r", "k", "s", "*">>
  >>

RowTie ==
  <<
    <<"S", ".", " ", "N", "o", ".">>,
    <<"P", "l", "a", "n", "t">>,
    <<"P", "r", "o", "c", "e", "s", "s">>,
    <<"S", "h", "o", "p", " ", "T", "y", "p", "e">>,
    <<"C", "o", "s", "t", " ", "C", "e", "n", "t", "r", "e">>,
    <<"S", "h", "o", "p", " ", "D", "e", "s", "c", "r", "i", "p", "t", "i", "o", "n">>
  >>

RowJunk ==
  <<
    <<"E", "m", "p", "l", "o", "y", "_", "i", "d">>,
    <<"N", "a", "m", "e">>,
    <<"D", "e", "p", "a", "r", "t", "m", "e", "n", "t">>
  >>
SCHEMAS ==
  << [name |-> "Schema 1", headers |-> Schema1],
     [name |-> "Schema 2", headers |-> Schema2],
     [name |-> "Schema 3", headers |-> Schema3],
     [name |-> "Schema 4", headers |-> Schema4] >>

(***************************************************************************)
(* normalize: str.strip, str.lower, re.sub and str.replace as Python       *)
(* computes them on str values (\s and strip() both take U+00A0 for        *)
(* whitespace).                                                            *)
(***************************************************************************)
Whitespace == {" ", "\t", "\n", "\r", "\f", "NBSP"}
UpperCase ==
  <<"A", "B", "C", "D", "E", "F", "G", "H", "I", "J", "K", "L", "M",
    "N", "O", "P", "Q", "R", "S", "T", "U", "V", "W", "X", "Y", "Z">>
LowerCase ==
  <<"a", "b", "c", "d", "e", "f", "g", "h", "i", "j", "k", "l", "m",
    "n", "o", "p", "q", "r", "s", "t", "u", "v", "w", "x", "y", "z">>

lowerChar(c) ==
  IF \E i \in 1..26 : UpperCase[i] = c
    THEN LowerCase[CHOOSE i \in 1..26 : UpperCase[i] = c]
    ELSE c

lower(s) == [i \in 1..Len(s) |-> lowerChar(s[i])]

\* s.strip(): what lies between the first and the last non-whitespace character
strip(s) ==
  LET keep == {i \in 1..Len(s) : s[i] \notin Whitespace}
  IN  IF keep = {} THEN <<>>
      ELSE SubSeq(s, CHOOSE i \in keep : \A j \in keep : i <= j,
                     CHOOSE i \in keep : \A j \in keep : i >= j)

\* re.sub("[cls]+", " ", s): every maximal run of cls characters becomes one
\* space (the first character of a run becomes the space, the others go)
subRuns(cls, s) ==
  LET marked == [i \in 1..Len(s) |->
                   IF s[i] \notin cls THEN s[i]
                   ELSE IF i > 1 /\ s[i - 1] \in cls THEN "" ELSE " "]
  IN  SelectSeq(marked, LAMBDA c : c # "")

\* s.replace(c, "")
replace(s, c) == SelectSeq(s, LAMBDA x : x # c)

\* normalize without the second collapse-and-strip
normalize_collapsing_once(s) ==
  LET s1 == lower(strip(s))
      s2 == subRuns(Whitespace \cup {"_"}, s1)
  IN  replace(replace(replace(replace(replace(s2, "\""), "'"), "LDQUO"), "RDQUO"), "*")

\* normalize without lower()
normalize_keeping_case(s) ==
  LET s1 == strip(s)
      s2 == subRuns(Whitespace \cup {"_"}, s1)
      s3 == replace(replace(replace(replace(replace(s2, "\""), "'"), "LDQUO"), "RDQUO"), "*")
  IN  strip(subRuns(Whitespace, s3))

normalize(s) ==
  LET s1 == lower(strip(s))
      s2 == subRuns(Whitespace \cup {"_"}, s1)
      s3 == replace(replace(replace(replace(replace(s2, "\""), "'"), "LDQUO"), "RDQUO"), "*")
  IN  strip(subRuns(Whitespace, s3))

(***************************************************************************)
(* compare_header_lists and score_mismatch.                                *)
(***************************************************************************)
startswithExact(mode) == mode = ModeExact

UnreadableDiff == [ok |-> FALSE, index |-> NoneInt, exp |-> <<>>, act |-> <<>>]

normalizeAll(hs) == [i \in 1..Len(hs) |-> normalize(hs[i])]

compare_header_lists(expected, actual, mode) ==
  IF actual = NoneHeaders
    THEN [is_match |-> FALSE, diffs |-> <<UnreadableDiff>>, missing |-> {},
          unexpected |-> {}, pos_mismatch_count |-> Sentinel]
    ELSE
      LET exact == startswithExact(mode)
          eq(a, b) == IF exact THEN a = b ELSE normalize(a) = normalize(b)
          exp_for_sets == IF exact THEN expected ELSE normalizeAll(expected)
          act_for_sets == IF exact THEN actual ELSE normalizeAll(actual)
          max_len == Max(Len(expected), Len(actual))
          exp(i) == IF i <= Len(expected) THEN expected[i] ELSE NoneLabel
          act(i) == IF i <= Len(actual) THEN actual[i] ELSE NoneLabel
          diffs == [i \in 1..max_len |->
                      [ok |-> eq(exp(i), act(i)), index |-> i - 1,
                       exp |-> exp(i), act |-> act(i)]]
          pos_mismatch_count == Cardinality({i \in 1..max_len : ~diffs[i].ok})
          missing == Range(exp_for_sets) \ Range(act_for_sets)
          unexpected == Range(act_for_sets) \ Range(exp_for_sets)
      IN  [is_match |-> (pos_mismatch_count = 0) /\ (missing = {}) /\ (unexpected = {}),
           diffs |-> diffs, missing |-> missing, unexpected |-> unexpected,
           pos_mismatch_count |-> pos_mismatch_count]

\* score_mismatch forgetting the unexpected labels
score_without_unexpected(missing, unexpected, pos_mismatch_count) ==
  Cardinality(missing) + pos_mismatch_count

score_mismatch(missing, unexpected, pos_mismatch_count) ==
  Cardinality(missing) + Cardinality(unexpected) + pos_mismatch_count

HeaderRows == {RowS2, RowS2Noisy, RowS3, RowTie, RowJunk, <<>>}
ReadErrors == {"Worksheet index out of range", "Excel file format cannot be determined"}

read_excel ==
  {[columns |-> r, exc |-> NoneStr] : r \in HeaderRows}
    \cup {[columns |-> NoneHeaders, exc |-> e] : e \in ReadErrors}

\* read_headers without its try/except: the exception of read_excel propagates
read_headers_unguarded(df) ==
  IF df.exc = NoneStr
    THEN [actual |-> df.columns, err |-> NoneStr, raised |-> FALSE]
    ELSE [actual |-> NoneHeaders, err |-> df.exc, raised |-> TRUE]

\* read_headers: the try/except around read_excel; never raises
read_headers(df) ==
  IF df.exc = NoneStr
    THEN [actual |-> df.columns, err |-> NoneStr, raised |-> FALSE]
    ELSE [actual |-> NoneHeaders, err |-> df.exc, raised |-> FALSE]

(***************************************************************************)
(* Inputs of the comparator and of the normalizer taken on their own.      *)
(***************************************************************************)
Lists(S, n) == UNION {[1..k -> S] : k \in 0..n}

CmpLabels == {<<"a">>, <<"A", " ">>, <<"b", "*">>, NoneLabel}

CasePairs == {<<"a", "A">>, <<"A", "a">>}
Separators == {" ", "\n", "NBSP", "_"}
Marks == {"\"", "'", "LDQUO", "RDQUO", "*"}
BaseAlphabet == {"a", " "}

VARIABLES
  catalog,                     \* the module global SCHEMAS as the scan reads it
  match_mode,                  \* st.radio "Match mode"
  single_schema_for_workbook,  \* st.checkbox
  max_header_scan_rows,        \* st.slider
  sheet_count,                 \* len(xls.sheet_names)
  sheet,                       \* loop variable of the workbook loop (1-based)
  sheet_results, all_sheets_pass, schemas_used,
  pc,                          \* position of the program
  hdr_row, schema_idx, actual_row, \* loop variables of evaluate_sheet_against_schemas
  result, best,                \* its two dicts
  calls,                       \* the calls of read_headers made for the current sheet
  cmp_expected, cmp_actual, cmp_mode, cmp_out, cmp_score,
  label_x, label_y, norm_x, norm_once, norm_twice

vars ==
  <<catalog, match_mode, single_schema_for_workbook, max_header_scan_rows,
    sheet_count, sheet, sheet_results, all_sheets_pass, schemas_used,
    pc, hdr_row, schema_idx, actual_row, result, best, calls,
    cmp_expected, cmp_actual, cmp_mode, cmp_out, cmp_score,
    label_x, label_y, norm_x, norm_once, norm_twice>>

uiVars == <<catalog, match_mode, single_schema_for_workbook, max_header_scan_rows, sheet_count>>
workbookVars == <<sheet, sheet_results, all_sheets_pass, schemas_used>>
scanVars == <<hdr_row, schema_idx, actual_row, result, best, calls>>
cmpVars == <<cmp_expected, cmp_actual, cmp_mode, cmp_out, cmp_score>>
normVars == <<label_x, label_y, norm_x, norm_once, norm_twice>>

new_result(sheet_name) ==
  [sheet_name |-> sheet_name, matched |-> FALSE, matched_schema |-> NoneStr,
   header_row |-> NoneInt, actual_headers |-> NoneHeaders, diffs |-> <<>>,
   missing_cols |-> {}, unexpected_cols |-> {}, read_error |-> NoneStr,
   best_schema |-> NoneStr, best_header_row |-> NoneInt, best_score |-> NoneInt]

new_best ==
  [schema |-> NoneStr, row |-> NoneInt, score |-> Sentinel, diffs |-> <<>>,
   missing |-> {}, unexpected |-> {}, headers |-> NoneHeaders]

NoCompare ==
  [is_match |-> FALSE, diffs |-> <<>>, missing |-> {}, unexpected |-> {},
   pos_mismatch_count |-> NoneInt]

(***************************************************************************)
(* The program: a workbook is uploaded, every sheet is scanned.            *)
(***************************************************************************)
ProgramInit(cat) ==
  /\ catalog = cat
  /\ match_mode \in Modes
  /\ single_schema_for_workbook \in BOOLEAN
  /\ max_header_scan_rows \in 0..MaxTryRows
  /\ sheet_count \in 1..MaxSheets
  /\ sheet = 1
  /\ sheet_results = <<>>
  /\ all_sheets_pass = TRUE
  /\ schemas_used = {}
  /\ pc = "rows"
  /\ hdr_row = 0
  /\ schema_idx = 1
  /\ actual_row = NoneHeaders
  /\ result = new_result(1)
  /\ best = new_best
  /\ calls = <<>>
  /\ cmp_expected = <<>> /\ cmp_actual = <<>> /\ cmp_mode = ModeExact
  /\ cmp_out = NoCompare /\ cmp_score = NoneInt
  /\ label_x = <<>> /\ label_y = <<>>
  /\ norm_x = <<>> /\ norm_once = <<>> /\ norm_twice = <<>>

Init == ProgramInit(SCHEMAS)

\* range(0, try_rows) and range(0, try_rows + 2)
in_range_one_less(row, try_rows) == row < try_rows
in_range_one_more(row, try_rows) == row <= try_rows + 1

\* range(0, try_rows + 1)
in_range(row, try_rows) == row <= try_rows

\* the read error overwritten by every later one
remember_last_error(read_error, err) == err

\* if result["read_error"] is None: result["read_error"] = str(err)
remember_error(read_error, err) == IF read_error = NoneStr THEN err ELSE read_error

\* score <= best["score"]
is_better_or_equal(score, best_score) == score <= best_score

\* if score < best["score"]
is_better(score, best_score) == score < best_score

\* one pass of the header-row loop up to the schema loop
ScanRow ==
  /\ pc = "rows"
  /\ in_range(hdr_row, max_header_scan_rows)
  /\ \E df \in read_excel :
       LET r == read_headers(df) IN
         IF r.raised
           THEN /\ pc' = "raised"
                /\ UNCHANGED <<scanVars>>
           ELSE
             /\ calls' = Append(calls, [header_row |-> hdr_row, actual |-> r.actual, err |-> r.err])
             /\ actual_row' = r.actual
             /\ IF r.err # NoneStr
                  THEN /\ result' = [result EXCEPT !.read_error = remember_error(@, r.err)]
                       /\ hdr_row' = hdr_row + 1
                       /\ UNCHANGED <<pc, schema_idx>>
                  ELSE IF r.actual = NoneHeaders \/ Len(r.actual) = 0
                    THEN /\ hdr_row' = hdr_row + 1
                         /\ UNCHANGED <<pc, schema_idx, result>>
                  ELSE IF Len(catalog) = 0
                    THEN /\ hdr_row' = hdr_row + 1
                         /\ UNCHANGED <<pc, schema_idx, result>>
                  ELSE /\ pc' = "schemas"
                       /\ schema_idx' = 1
                       /\ UNCHANGED <<hdr_row, result>>
             /\ UNCHANGED best
  /\ UNCHANGED <<uiVars, workbookVars, cmpVars, normVars>>

\* compare_header_lists(expected, actual, mode) of the schema loop, for every
\* schema of SCHEMAS, every header row read_excel can produce and both modes
compared ==
  [m \in Modes |->
    [e \in {SCHEMAS[i].headers : i \in 1..Len(SCHEMAS)} |->
      [a \in HeaderRows |-> compare_header_lists(e, a, m)]]]

\* one pass of the schema loop
TrySchema ==
  /\ pc = "schemas"
  /\ LET schema_name == catalog[schema_idx].name
         expected == catalog[schema_idx].headers
         c == compared[match_mode][expected][actual_row]
         score == score_mismatch(c.missing, c.unexpected, c.pos_mismatch_count)
     IN  IF c.is_match
           THEN /\ result' = [result EXCEPT !.matched = TRUE,
                                            !.matched_schema = schema_name,
                                            !.header_row = hdr_row,
                                            !.actual_headers = actual_row,
                                            !.diffs = c.diffs,
                                            !.missing_cols = c.missing,
                                            !.unexpected_cols = c.unexpected,
                                            !.read_error = NoneStr]
                /\ pc' = "returned"
                /\ UNCHANGED <<best, hdr_row, schema_idx>>
           ELSE /\ best' = IF is_better(score, best.score)
                             THEN [schema |-> schema_name, row |-> hdr_row, score |-> score,
                                   diffs |-> c.diffs, missing |-> c.missing,
                                   unexpected |-> c.unexpected, headers |-> actual_row]
                             ELSE best
                /\ IF schema_idx < Len(catalog)
                     THEN /\ schema_idx' = schema_idx + 1
                          /\ UNCHANGED <<pc, hdr_row>>
                     ELSE /\ pc' = "rows"
                          /\ hdr_row' = hdr_row + 1
                          /\ UNCHANGED schema_idx
                /\ UNCHANGED result
  /\ UNCHANGED <<actual_row, calls>>
  /\ UNCHANGED <<uiVars, workbookVars, cmpVars, normVars>>

\* the header-row loop is exhausted: return the best attempt
ReturnBest ==
  /\ pc = "rows"
  /\ ~in_range(hdr_row, max_header_scan_rows)
  /\ result' = IF best.schema # NoneStr
                 THEN [result EXCEPT !.matched = FALSE,
                                     !.matched_schema = NoneStr,
                                     !.header_row = NoneInt,
                                     !.actual_headers = best.headers,
                                     !.diffs = best.diffs,
                                     !.missing_cols = best.missing,
                                     !.unexpected_cols = best.unexpected,
                                     !.best_schema = best.schema,
                                     !.best_header_row = best.row,
                                     !.best_score = best.score]
                 ELSE result
  /\ pc' = "returned"
  /\ UNCHANGED <<hdr_row, schema_idx, actual_row, best, calls>>
  /\ UNCHANGED <<uiVars, workbookVars, cmpVars, normVars>>

\* what sheet_results keeps of a res: the fields the aggregation is about; the
\* others (headers, diffs, best attempt, read error) are read only by the
\* per-sheet details display
kept(res) ==
  [sheet_name |-> res.sheet_name, matched |-> res.matched,
   matched_schema |-> res.matched_schema]

\* the body of the workbook loop after evaluate_sheet_against_schemas returned
CollectSheet ==
  /\ pc = "returned"
  /\ sheet_results' = Append(sheet_results, kept(result))
  /\ IF result.matched
       THEN /\ schemas_used' = schemas_used \cup {result.matched_schema}
            /\ UNCHANGED all_sheets_pass
       ELSE /\ all_sheets_pass' = FALSE
            /\ UNCHANGED schemas_used
  /\ IF sheet < sheet_count
       THEN /\ sheet' = sheet + 1
            /\ pc' = "rows"
            /\ hdr_row' = 0
            /\ schema_idx' = 1
            /\ actual_row' = NoneHeaders
            /\ result' = new_result(sheet + 1)
            /\ best' = new_best
            /\ calls' = <<>>
       ELSE /\ pc' = "enforce"
            /\ UNCHANGED <<sheet, scanVars>>
  /\ UNCHANGED <<uiVars, cmpVars, normVars>>

\* len(schemas_used) > 2
more_than_two_schemas(flag, used) == flag /\ Cardinality(used) > 2

\* len(schemas_used) > 1 under the single-schema option
several_schemas(flag, used) == flag /\ Cardinality(used) > 1

EnforceSingleSchema ==
  /\ pc = "enforce"
  /\ all_sheets_pass' = IF all_sheets_pass /\ several_schemas(single_schema_for_workbook, schemas_used)
                          THEN FALSE
                          ELSE all_sheets_pass
  /\ pc' = "summary"
  /\ UNCHANGED <<sheet, sheet_results, schemas_used>>
  /\ UNCHANGED <<uiVars, scanVars, cmpVars, normVars>>

Next == ScanRow \/ TrySchema \/ ReturnBest \/ CollectSheet \/ EnforceSingleSchema

Spec == Init /\ [][Next]_vars

(***************************************************************************)
(* The same program with SCHEMAS left empty by whoever configured it.      *)
(***************************************************************************)
ConfigInit == \E cat \in {SCHEMAS, <<>>} : ProgramInit(cat)

SpecConfig == ConfigInit /\ [][Next]_vars

(***************************************************************************)
(* The comparator on its own: compare_header_lists followed by             *)
(* score_mismatch, on header lists of arbitrary labels.                    *)
(***************************************************************************)
IdleProgram ==
  /\ catalog = SCHEMAS
  /\ match_mode = ModeExact
  /\ single_schema_for_workbook = FALSE
  /\ max_header_scan_rows = 0
  /\ sheet_count = 0
  /\ sheet = 0
  /\ sheet_results = <<>>
  /\ all_sheets_pass = TRUE
  /\ schemas_used = {}
  /\ hdr_row = 0
  /\ schema_idx = 1
  /\ actual_row = NoneHeaders
  /\ result = new_result(0)
  /\ best = new_best
  /\ calls = <<>>

CompareInit ==
  /\ IdleProgram
  /\ pc = "compare"
  /\ cmp_expected \in Lists(CmpLabels, MaxListLen)
  /\ cmp_actual \in Lists(CmpLabels, MaxListLen) \cup {NoneHeaders}
  /\ cmp_mode \in Modes
  /\ cmp_out = NoCompare /\ cmp_score = NoneInt
  /\ label_x = <<>> /\ label_y = <<>>
  /\ norm_x = <<>> /\ norm_once = <<>> /\ norm_twice = <<>>

CompareHeaders ==
  /\ pc = "compare"
  /\ LET c == compare_header_lists(cmp_expected, cmp_actual, cmp_mode) IN
       /\ cmp_out' = c
       /\ cmp_score' = score_mismatch(c.missing, c.unexpected, c.pos_mismatch_count)
  /\ pc' = "compared"
  /\ UNCHANGED <<cmp_expected, cmp_actual, cmp_mode>>
  /\ UNCHANGED <<uiVars, workbookVars, scanVars, normVars>>

CompareNext == CompareHeaders

SpecCompare == CompareInit /\ [][CompareNext]_vars

(***************************************************************************)
(* The normalizer on its own.  label_x is a label; label_y is label_x      *)
(* after any number of changes of formatting only: the case of a letter,   *)
(* the kind of a whitespace or underscore character, the length of a run   *)
(* of them (or one at either end of the label), a quote or an asterisk     *)
(* more or less.  NormalizeLabels then normalizes both, normalizes the     *)
(* result once more, and compares the two labels in Lenient mode.          *)
(***************************************************************************)
InsertAt(s, p, c) == SubSeq(s, 1, p) \o <<c>> \o SubSeq(s, p + 1, Len(s))
RemoveAt(s, i) == SubSeq(s, 1, i - 1) \o SubSeq(s, i + 1, Len(s))

\* position p (between s[p] and s[p+1]) touches a run of separators or an end of the label
AtRunOrEnd(s, p) ==
  IF p = 0 \/ p = Len(s) THEN TRUE
  ELSE s[p] \in Separators \/ s[p + 1] \in Separators

NormalizeInit ==
  /\ IdleProgram
  /\ pc = "label"
  /\ label_x \in Lists(BaseAlphabet, MaxStrLen)
  /\ label_y = label_x
  /\ norm_x = <<>> /\ norm_once = <<>> /\ norm_twice = <<>>
  /\ cmp_expected = <<>> /\ cmp_actual = <<>> /\ cmp_mode = ModeLenient
  /\ cmp_out = NoCompare /\ cmp_score = NoneInt

Reformat(y) ==
  /\ pc = "label"
  /\ label_y' = y
  /\ UNCHANGED <<pc, label_x, norm_x, norm_once, norm_twice>>
  /\ UNCHANGED <<uiVars, workbookVars, scanVars, cmpVars>>

ChangeCase ==
  \E i \in 1..Len(label_y) : \E cp \in CasePairs :
    /\ label_y[i] = cp[1]
    /\ Reformat([label_y EXCEPT ![i] = cp[2]])

ChangeSeparator ==
  \E i \in 1..Len(label_y) : \E c \in Separators :
    /\ label_y[i] \in Separators
    /\ c # label_y[i]
    /\ Reformat([label_y EXCEPT ![i] = c])

GrowRun ==
  \E p \in 0..Len(label_y) : \E c \in Separators :
    /\ Len(label_y) < MaxStrLen
    /\ AtRunOrEnd(label_y, p)
    /\ Reformat(InsertAt(label_y, p, c))

ShrinkRun ==
  \E i \in 1..Len(label_y) :
    /\ label_y[i] \in Separators
    /\ AtRunOrEnd(RemoveAt(label_y, i), i - 1)
    /\ Reformat(RemoveAt(label_y, i))

AddMark ==
  \E p \in 0..Len(label_y) : \E c \in Marks :
    /\ Len(label_y) < MaxStrLen
    /\ Reformat(InsertAt(label_y, p, c))

DropMark ==
  \E i \in 1..Len(label_y) :
    /\ label_y[i] \in Marks
    /\ Reformat(RemoveAt(label_y, i))

NormalizeLabels ==
  /\ pc = "label"
  /\ norm_x' = normalize(label_x)
  /\ norm_once' = normalize(label_y)
  /\ norm_twice' = normalize(normalize(label_y))
  /\ cmp_expected' = <<label_x>>
  /\ cmp_actual' = <<label_y>>
  /\ cmp_out' = compare_header_lists(<<label_x>>, <<label_y>>, cmp_mode)
  /\ pc' = "normalized"
  /\ UNCHANGED <<label_x, label_y, cmp_mode, cmp_score>>
  /\ UNCHANGED <<uiVars, workbookVars, scanVars>>

NormalizeNext ==
  \/ ChangeCase \/ ChangeSeparator \/ GrowRun \/ ShrinkRun \/ AddMark \/ DropMark
  \/ NormalizeLabels

SpecNormalize == NormalizeInit /\ [][NormalizeNext]_vars

(***************************************************************************)
(* Properties.                                                             *)
(***************************************************************************)

\* calls whose row was read without error and is not empty
UsableCalls ==
  {i \in 1..Len(calls) :
     calls[i].err = NoneStr /\ calls[i].actual # NoneHeaders /\ Len(calls[i].actual) > 0}

\* the (call, schema) pairs the scan can compare, and their discovery order
ComparedPairs == UsableCalls \X (1..Len(catalog))
Before(p, q) == p[1] < q[1] \/ (p[1] = q[1] /\ p[2] < q[2])
PairResult(p) == compared[match_mode][catalog[p[2]].headers][calls[p[1]].actual]
PairScore(p) ==
  LET c == PairResult(p) IN score_mismatch(c.missing, c.unexpected, c.pos_mismatch_count)
MatchingPairs == {p \in ComparedPairs : PairResult(p).is_match}

\* the first read error among the calls made, None when there is none
FirstError ==
  LET failed == {i \in 1..Len(calls) : calls[i].err # NoneStr}
  IN  IF failed = {} THEN NoneStr
      ELSE calls[CHOOSE i \in failed : \A j \in failed : i <= j].err

Abs(n) == IF n < 0 THEN 0 - n ELSE n

\* C1: for a readable actual list, the score is |missing| + |unexpected| +
\* pos_mismatch_count, and it is 0 exactly when is_match is true.
ScoreIsSumAndZeroIffMatch ==
  (pc = "compared" /\ cmp_actual # NoneHeaders) =>
    /\ cmp_score = Cardinality(cmp_out.missing) + Cardinality(cmp_out.unexpected)
                     + cmp_out.pos_mismatch_count
    /\ (cmp_score = 0) <=> cmp_out.is_match

\* a Lenient match of two lists that differ as written
ScoreWitness ==
  /\ pc = "compared"
  /\ cmp_mode = ModeLenient
  /\ cmp_expected = << <<"a">>, <<"b", "*">> >>
  /\ cmp_actual = << <<"A", " ">>, <<"b", "*">> >>
  /\ cmp_out.is_match
  /\ cmp_score = 0

\* a list with one label more than the expected one, that label unexpected
ScoreMismatchWitness ==
  /\ pc = "compared"
  /\ cmp_expected = << <<"a">> >>
  /\ cmp_actual = << <<"a">>, <<"b", "*">> >>
  /\ ~cmp_out.is_match
  /\ cmp_score = 2

\* C2: first match wins.  When the scan has returned: if some readable,
\* non-empty row among those read matches some schema, the result is
\* matched, with header_row and matched_schema those of the first matching
\* pair in the order "increasing offset, then catalog order"; if none does,
\* every offset 0..try_rows was read and the result is not matched.  The
\* header row of Schema 2 at offset 0 in Lenient mode gives matched=True,
\* matched_schema="Schema 2", header_row=0.
FirstMatchWins ==
  pc = "returned" =>
    /\ MatchingPairs # {} =>
         /\ result.matched
         /\ \E p \in MatchingPairs :
              /\ \A q \in MatchingPairs : p = q \/ Before(p, q)
              /\ result.header_row = calls[p[1]].header_row
              /\ result.matched_schema = catalog[p[2]].name
    /\ MatchingPairs = {} =>
         /\ ~result.matched
         /\ {calls[i].header_row : i \in 1..Len(calls)} = 0..max_header_scan_rows
    /\ (match_mode = ModeLenient /\ Len(calls) > 0 /\ calls[1].actual = RowS2) =>
         /\ result.matched
         /\ result.matched_schema = "Schema 2"
         /\ result.header_row = 0

\* a row that matches nothing at offset 0, the noisy Schema 2 row at offset 1
FirstMatchWitness ==
  /\ pc = "returned"
  /\ match_mode = ModeLenient
  /\ max_header_scan_rows = 2
  /\ Len(calls) = 2
  /\ calls[1].actual = RowTie
  /\ calls[2].actual = RowS2Noisy
  /\ result.matched
  /\ result.matched_schema = "Schema 2"
  /\ result.header_row = 1

\* C3: within one scan read_headers is called for the offsets 0, 1, 2, ...
\* in increasing order, once each, never beyond try_rows, and never for an
\* offset greater than the one that matched.
CallsInOrderAndStopAtMatch ==
  /\ \A i \in 1..Len(calls) : calls[i].header_row = i - 1
  /\ Len(calls) <= max_header_scan_rows + 1
  /\ result.matched => Len(calls) = result.header_row + 1

\* a match at offset 1 of a scan allowed to go on to offset 2
CallsWitness ==
  /\ pc = "returned"
  /\ max_header_scan_rows = 2
  /\ result.matched
  /\ result.header_row = 1
  /\ Len(calls) = 2

\* C4: when the scan returns without a match and at least one readable
\* non-empty row was compared, the best candidate has the minimum score over
\* all compared (offset, schema) pairs and is the earliest discovered pair
\* with that score: lowest offset, then catalog order.
BestIsEarliestMinimum ==
  (pc = "returned" /\ ~result.matched /\ ComparedPairs # {}) =>
    \E p \in ComparedPairs :
      /\ \A q \in ComparedPairs :
           \/ PairScore(p) < PairScore(q)
           \/ PairScore(p) = PairScore(q) /\ (p = q \/ Before(p, q))
      /\ result.best_schema = catalog[p[2]].name
      /\ result.best_header_row = calls[p[1]].header_row
      /\ result.best_score = PairScore(p)

\* the row that is as close to Schema 2 as to Schema 3, at two offsets
BestTieWitness ==
  /\ pc = "returned"
  /\ ~result.matched
  /\ Len(calls) = 3
  /\ calls[1].err # NoneStr
  /\ calls[2].actual = RowTie
  /\ calls[3].actual = RowTie
  /\ result.best_schema = "Schema 2"
  /\ result.best_header_row = 1
  /\ result.best_score = 13

\* C5: a read error does not abort the scan, and only the first one is
\* remembered.  While no match is found the remembered error is the first
\* error of the calls made; a scan that returns without a match has tried
\* every offset 0..try_rows; and if it never read a readable non-empty row,
\* its result has that first error and no best candidate.
FirstErrorKeptScanGoesOn ==
  /\ ~result.matched => result.read_error = FirstError
  /\ (pc = "returned" /\ ~result.matched) =>
       {calls[i].header_row : i \in 1..Len(calls)} = 0..max_header_scan_rows
  /\ (pc = "returned" /\ ~result.matched /\ UsableCalls = {}) =>
       /\ result.best_schema = NoneStr
       /\ result.best_header_row = NoneInt
       /\ result.best_score = NoneInt

\* two different errors, then a blank row
FirstErrorWitness ==
  /\ pc = "returned"
  /\ Len(calls) = 3
  /\ calls[1].err # NoneStr
  /\ calls[2].err # NoneStr
  /\ calls[1].err # calls[2].err
  /\ calls[3].err = NoneStr
  /\ UsableCalls = {}
  /\ result.read_error = calls[1].err
  /\ result.best_schema = NoneStr

\* C6: after all sheets are scanned, all_sheets_pass is true exactly when
\* every sheet matched and (single_schema_for_workbook is false or all
\* matched sheets share one schema name).
WorkbookAggregation ==
  pc = "summary" =>
    /\ Len(sheet_results) = sheet_count
    /\ all_sheets_pass <=>
         /\ \A i \in 1..Len(sheet_results) : sheet_results[i].matched
         /\ \/ ~single_schema_for_workbook
            \/ \A i, j \in 1..Len(sheet_results) :
                 sheet_results[i].matched_schema = sheet_results[j].matched_schema

\* every sheet matches, two of them different schemas, and the option is on
WorkbookWitness ==
  /\ pc = "summary"
  /\ single_schema_for_workbook
  /\ Len(sheet_results) = 2
  /\ sheet_results[1].matched /\ sheet_results[2].matched
  /\ sheet_results[1].matched_schema # sheet_results[2].matched_schema
  /\ ~all_sheets_pass

\* C7: Lenient normalization is idempotent.
NormalizeIdempotent ==
  pc = "normalized" => norm_twice = norm_once

\* an asterisk between two underscores normalizes to the empty label
IdempotentWitness ==
  /\ pc = "normalized"
  /\ label_y = <<"_", "*", "_">>
  /\ norm_once = <<>>
  /\ norm_twice = <<>>

LoneIndexAlwaysFails ==
  (pc = "compared" /\ cmp_actual # NoneHeaders) =>
    cmp_out.pos_mismatch_count >= Abs(Len(cmp_expected) - Len(cmp_actual))

=============================================================================
